---- MODULE Spec2Model ----
(***************************************************************************)
(* A model of multivec's monolingual inference helpers (distance.cpp) and  *)
(* of the parts of the trainer declared in multivec-mono.hpp.              *)
(*                                                                         *)
(* Numbers.  A float is modelled by an exact rational <<n, d>> (d > 0, in  *)
(* lowest terms); rounding and overflow of the 32-bit float are not        *)
(* modelled.  A cosine, which needs a square root, is kept as its sign and *)
(* its square; 0/0 is the value NaN.                                       *)
(***************************************************************************)
EXTENDS Integers, Sequences, FiniteSets, TLC

VARIABLES
    vocabulary,         \* map<string, HuffmanNode>: word -> index
    input_weights,      \* mat
    output_weights,     \* mat (negative sampling)
    output_weights_hs,  \* mat (hierarchical softmax)
    sent_weights,       \* mat
    normalized,         \* normalizeWeights() has been called
    before,             \* the four matrices as they were before the last normalizeWeights()
    call,               \* the last public call: its arguments and what it returned or threw
    \* the Huffman build
    leaves,             \* the vocabulary's nodes, sorted by HuffmanNode::comp
    parent_nodes,       \* the internal nodes, in construction order
    leaf_cur,           \* the leaf cursor: leaves[1..leaf_cur] are not merged yet
    node_cur,           \* the internal-node cursor: parent_nodes[node_cur..] are not merged yet
    build,              \* "merge", "assign" or "done"
    \* the output-layer routines
    layer,              \* "hs" (hierarchicalUpdate) or "ns" (negSamplingUpdate)
    row,                \* the row of the shared output matrix the workers use
    worker,             \* per worker: where it is in the routine, and its locals
    assert_ok,          \* no assertion of sigmoid has failed
    \* the chunks of the training file
    file,               \* the lines' lengths in bytes, the line break included
    chunks,             \* chunkify's offsets: worker k reads from chunks[k+1] to chunks[k+2]
    reader,             \* per worker: where it is in trainChunk, its file position, its iteration
    trained             \* per iteration and line: how many times trainSentence got the line

simVars == <<vocabulary, input_weights, output_weights, output_weights_hs,
             sent_weights, normalized, before, call>>

huffVars == <<leaves, parent_nodes, leaf_cur, node_cur, build>>

sigVars == <<layer, row, worker, assert_ok>>

chunkVars == <<file, chunks, reader, trained>>

vars == <<simVars, huffVars, sigVars, chunkVars>>

----------------------------------------------------------------------------
(* Bounds of the model. *)

\* config.dimension of the modelled instances
Dim == 2
\* most rows of a matrix that normalizeWeights is given
MaxRows == 2
\* largest vocabulary the Huffman tree is built for
MaxV == 4
\* largest count of a word
MaxCount == 3
\* most worker threads of trainChunk
MaxThreads == 2
\* most lines of the training file
MaxLines == 2
\* longest line of the training file, in bytes, the line break included
MaxLineLen == 2
\* config.max_iterations of the modelled runs
MaxIter == 2

\* const float MAX_EXP = 6
MAX_EXP == 6
\* longest input sequence, in characters
MaxSeqLen == 3

----------------------------------------------------------------------------
(* Rationals. *)

Abs(x) == IF x < 0 THEN -x ELSE x

RECURSIVE Gcd(_, _)
Gcd(a, b) == IF b = 0 THEN a ELSE Gcd(b, a % b)

Rat(n, d) ==
    LET g == Gcd(Abs(n), Abs(d))
        s == IF d < 0 THEN -1 ELSE 1
    IN  <<(s * n) \div g, (s * d) \div g>>

Zero == <<0, 1>>
One  == <<1, 1>>
RInt(i) == <<i, 1>>

RAdd(a, b) == Rat(a[1] * b[2] + b[1] * a[2], a[2] * b[2])
RSub(a, b) == Rat(a[1] * b[2] - b[1] * a[2], a[2] * b[2])
RMul(a, b) == Rat(a[1] * b[1], a[2] * b[2])
\* b # 0
RDiv(a, b) == Rat(a[1] * b[2], a[2] * b[1])
RLe(a, b)  == a[1] * b[2] <= b[1] * a[2]
RLt(a, b)  == a[1] * b[2] <  b[1] * a[2]
RMin(a, b) == IF RLt(b, a) THEN b ELSE a
RMax(a, b) == IF RLt(a, b) THEN b ELSE a
RSgn(a)    == IF a[1] > 0 THEN 1 ELSE IF a[1] < 0 THEN -1 ELSE 0

----------------------------------------------------------------------------
(* vec: dot product and norm. *)

RECURSIVE DotFrom(_, _, _)
DotFrom(v1, v2, j) ==
    IF j > Len(v1) THEN Zero
    ELSE RAdd(RMul(v1[j], v2[j]), DotFrom(v1, v2, j + 1))

\* v1.dot(v2)
Dot(v1, v2) == DotFrom(v1, v2, 1)

\* v.norm() squared
NormSq(v) == Dot(v, v)

NaN == [kind |-> "nan"]
Num(sgn, sq) == [kind |-> "num", sgn |-> sgn, sq |-> sq]
Throw(what) == [kind |-> "throw", what |-> what]

\* v1.dot(v2) / (v1.norm() * v2.norm()): a zero norm makes the dot product
\* zero too, and 0/0 is NaN.
Cosine(v1, v2) ==
    LET d  == Dot(v1, v2)
        nn == RMul(NormSq(v1), NormSq(v2))
    IN  IF nn = Zero THEN NaN
        ELSE Num(RSgn(d), RDiv(RMul(d, d), nn))

\* the float 1.0
FOne == Num(1, One)

----------------------------------------------------------------------------
(* Strings.  A string is a sequence of characters; Chars holds three       *)
(* letters and the blank.                                                  *)

Chars == {"a", "b", "x", " "}
IsSpace(c) == c = " "

Strings(n) == UNION {[1..k -> Chars] : k \in 0..n}

\* The words the vocabulary is built from, by index.
VocabWords == << <<"a">>, <<"b">> >>

RECURSIVE SplitFrom(_, _, _, _)
SplitFrom(sentence, i, cur, acc) ==
    IF i > Len(sentence)
    THEN IF cur = <<>> THEN acc ELSE Append(acc, cur)
    ELSE IF IsSpace(sentence[i])
         THEN SplitFrom(sentence, i + 1, <<>>,
                        IF cur = <<>> THEN acc ELSE Append(acc, cur))
         ELSE SplitFrom(sentence, i + 1, Append(cur, sentence[i]), acc)

\* split(sentence): the whitespace-separated tokens, in order
split(sentence) == SplitFrom(sentence, 1, <<>>, <<>>)

----------------------------------------------------------------------------
(* Word vectors. *)

Policies == 0..3

RHalf(a) == RDiv(a, RInt(2))

\* wordVec(index, policy)
wordVecIndex(index, policy) ==
    LET win  == input_weights[index + 1]
        wout == output_weights[index + 1]
    IN  CASE policy = 0 -> win
          [] policy = 1 -> wout
          [] policy = 2 -> [j \in 1..Len(win) |-> RHalf(RAdd(win[j], wout[j]))]
          [] OTHER      -> win \o wout

\* wordVec(word, policy): throws for a word that is not in the vocabulary
wordVec(word, policy) ==
    IF word \notin DOMAIN vocabulary
    THEN Throw("NotInVocabulary")
    ELSE [kind |-> "vec", v |-> wordVecIndex(vocabulary[word], policy)]

----------------------------------------------------------------------------
(* distance.cpp *)

\* A plausible slip: the vectors are looked up before the words are compared.
similarityLookupFirst(word1, word2, policy) ==
    LET v1 == wordVec(word1, policy)
        v2 == wordVec(word2, policy)
    IN  IF v1.kind = "throw" THEN v1
        ELSE IF v2.kind = "throw" THEN v2
        ELSE IF word1 = word2 THEN FOne
        ELSE Cosine(v1.v, v2.v)

\* A plausible slip: an unknown word is given the zero vector instead of an error.
similarityUnknownAsZero(word1, word2, policy) ==
    IF word1 = word2 THEN FOne
    ELSE LET v1 == wordVec(word1, policy)
             v2 == wordVec(word2, policy)
         IN  IF v1.kind = "throw" \/ v2.kind = "throw" THEN NaN
             ELSE Cosine(v1.v, v2.v)

\* MonolingualModel::similarity
similarity(word1, word2, policy) ==
    IF word1 = word2 THEN FOne
    ELSE LET v1 == wordVec(word1, policy)
         IN  IF v1.kind = "throw" THEN v1
             ELSE LET v2 == wordVec(word2, policy)
                  IN  IF v2.kind = "throw" THEN v2
                      ELSE Cosine(v1.v, v2.v)

\* What a read of words2[i] yields: the element, or, past the end of the
\* vector (undefined behaviour), whatever pad holds for that position: a crash
\* or some string.
ReadWord2(words2, i, pad) ==
    IF i <= Len(words2) THEN [crash |-> FALSE, word |-> words2[i]]
    ELSE pad[i - Len(words2)]

\* The loop of similarityNgrams from position i on.  acc.terms are the values
\* added to res, in order; acc.n is n; acc.nsim counts the calls of similarity.
RECURSIVE NgramsLoop(_, _, _, _, _, _)
NgramsLoop(words1, words2, policy, pad, i, acc) ==
    IF i > Len(words1) THEN acc
    ELSE LET w2 == ReadWord2(words2, i, pad)
         IN  IF w2.crash THEN [acc EXCEPT !.crashed = TRUE]
             ELSE LET s == similarity(words1[i], w2.word, policy)
                  IN  NgramsLoop(words1, words2, policy, pad, i + 1,
                        IF s.kind = "throw"
                        THEN [acc EXCEPT !.nsim = @ + 1]
                        ELSE [acc EXCEPT !.terms = Append(@, s), !.n = @ + 1,
                                         !.nsim = @ + 1])

NgramsStart == [terms |-> <<>>, n |-> 0, nsim |-> 0, crashed |-> FALSE]

\* res and n after the loop of MonolingualModel::similarityNgrams
NgramsSum(words1, words2, policy, pad) ==
    NgramsLoop(words1, words2, policy, pad, 1, NgramsStart)

\* A plausible slip: n is counted outside the try block.
similarityNgramsCountAll(seq1, seq2, policy, pad) ==
    LET words1 == split(seq1)
        words2 == split(seq2)
        r == NgramsSum(words1, words2, policy, pad)
    IN  IF r.crashed THEN [kind |-> "crash", nsim |-> r.nsim]
        ELSE IF Len(words1) = 0
        THEN [kind |-> "throw", what |-> "AllOOV", nsim |-> r.nsim]
        ELSE [kind |-> "mean", terms |-> r.terms, n |-> Len(words1), nsim |-> r.nsim]

\* A plausible slip: the test of n is left out and res / 0 is returned.
similarityNgramsNoCheck(seq1, seq2, policy, pad) ==
    LET words1 == split(seq1)
        words2 == split(seq2)
        r == NgramsSum(words1, words2, policy, pad)
    IN  IF r.crashed THEN [kind |-> "crash", nsim |-> r.nsim]
        ELSE [kind |-> "mean", terms |-> r.terms, n |-> r.n, nsim |-> r.nsim]

\* MonolingualModel::similarityNgrams.  The returned mean res / n is kept as
\* the terms summed into res and the divisor n.
similarityNgrams(seq1, seq2, policy, pad) ==
    LET words1 == split(seq1)
        words2 == split(seq2)
    IN  IF Len(words2) # Len(words2)
        THEN [kind |-> "throw", what |-> "LengthMismatch", nsim |-> 0]
        ELSE LET r == NgramsSum(words1, words2, policy, pad)
             IN  IF r.crashed THEN [kind |-> "crash", nsim |-> r.nsim]
                 ELSE IF r.n = 0
                 THEN [kind |-> "throw", what |-> "AllOOV", nsim |-> r.nsim]
                 ELSE [kind |-> "mean", terms |-> r.terms, n |-> r.n, nsim |-> r.nsim]

----------------------------------------------------------------------------
(* normalizeWeights *)

RECURSIVE MinFrom(_, _, _, _)
MinFrom(weights, j, i, m) ==
    IF i > Len(weights) THEN m
    ELSE MinFrom(weights, j, i + 1, RMin(m, weights[i][j]))

RECURSIVE MaxFrom(_, _, _, _)
MaxFrom(weights, j, i, m) ==
    IF i > Len(weights) THEN m
    ELSE MaxFrom(weights, j, i + 1, RMax(m, weights[i][j]))

\* min_values and max_values: row 0, then rows 1.. folded in
min_values(weights) ==
    [j \in 1..Len(weights[1]) |-> MinFrom(weights, j, 2, weights[1][j])]
max_values(weights) ==
    [j \in 1..Len(weights[1]) |-> MaxFrom(weights, j, 2, weights[1][j])]

\* A plausible slip: the minimum is not subtracted.
normalizeWeightsNoShift(weights) ==
    IF weights = <<>> THEN weights
    ELSE LET mins == min_values(weights)
             maxs == max_values(weights)
         IN  [i \in 1..Len(weights) |->
                [j \in 1..Len(weights[1]) |->
                    IF maxs[j] # mins[j]
                    THEN RDiv(weights[i][j], RSub(maxs[j], mins[j]))
                    ELSE weights[i][j]]]

\* ::normalizeWeights(mat&)
normalizeWeights(weights) ==
    IF weights = <<>> THEN weights
    ELSE LET mins == min_values(weights)
             maxs == max_values(weights)
         IN  [i \in 1..Len(weights) |->
                [j \in 1..Len(weights[1]) |->
                    IF maxs[j] # mins[j]
                    THEN RDiv(RSub(weights[i][j], mins[j]), RSub(maxs[j], mins[j]))
                    ELSE weights[i][j]]]

\* MonolingualModel::normalizeWeights()
NormalizeWeights ==
    /\ call.op = "none"
    /\ before' = [input |-> input_weights, output |-> output_weights,
                  output_hs |-> output_weights_hs, sent |-> sent_weights]
    /\ input_weights' = normalizeWeights(input_weights)
    /\ output_weights' = normalizeWeights(output_weights)
    /\ output_weights_hs' = normalizeWeights(output_weights_hs)
    /\ sent_weights' = normalizeWeights(sent_weights)
    /\ normalized' = TRUE
    /\ UNCHANGED <<vocabulary, call>>
    /\ UNCHANGED <<huffVars, sigVars, chunkVars>>

----------------------------------------------------------------------------
(* Matrices and vocabularies of the model instances. *)

\* the weights a matrix is filled with
Vals == {RInt(x) : x \in {0 - 1, 0, 1}}

\* the rows x Dim matrices over Vals
Mats(rows) == [1..rows -> [1..Dim -> Vals]]

\* the rows x Dim matrix that holds c everywhere
ConstMat(rows, c) == [i \in 1..rows |-> [j \in 1..Dim |-> RInt(c)]]

\* the rows x Dim matrix with 1 at and below the diagonal: its rows differ
\* and none is zero
StepMat(rows) == [i \in 1..rows |-> [j \in 1..Dim |-> RInt(IF j <= i THEN 1 ELSE 0)]]

Vocab(V) == [w \in {VocabWords[i] : i \in 1..V} |->
                (CHOOSE i \in 1..V : VocabWords[i] = w) - 1]

NoCall == [op |-> "none"]
NoBefore == [input |-> <<>>, output |-> <<>>, output_hs |-> <<>>, sent |-> <<>>]

\* The caller takes the result of the last call.
Return ==
    /\ call.op # "none"
    /\ call' = NoCall
    /\ UNCHANGED <<vocabulary, input_weights, output_weights,
                   output_weights_hs, sent_weights, normalized, before>>
    /\ UNCHANGED <<huffVars, sigVars, chunkVars>>

\* The arguments of similarity: the strings of at most one character
SimWords == Strings(1)

Similarity ==
    /\ call.op = "none"
    /\ \E word1 \in SimWords, word2 \in SimWords, policy \in Policies :
        call' = [op |-> "similarity", word1 |-> word1, word2 |-> word2,
                 policy |-> policy, ret |-> similarity(word1, word2, policy)]
    /\ UNCHANGED <<vocabulary, input_weights, output_weights,
                   output_weights_hs, sent_weights, normalized, before>>
    /\ UNCHANGED <<huffVars, sigVars, chunkVars>>

\* What a read past the end of words2 can yield: a crash, or a string (one
\* of the vocabulary's words, or another one).
OobReads ==
    {[crash |-> TRUE, word |-> <<>>]}
    \cup {[crash |-> FALSE, word |-> w] : w \in {<<"a">>, <<"b">>, <<"x">>}}

\* The outcomes of the reads past the end of words2, one per position
Pads(seq1, seq2) ==
    LET k == Len(split(seq1)) - Len(split(seq2))
    IN  IF k <= 0 THEN {<<>>} ELSE [1..k -> OobReads]

SimilarityNgrams ==
    /\ call.op = "none"
    /\ \E seq1 \in Strings(MaxSeqLen), seq2 \in Strings(MaxSeqLen), policy \in Policies :
        \E pad \in Pads(seq1, seq2) :
            call' = [op |-> "similarityNgrams", seq1 |-> seq1, seq2 |-> seq2,
                     policy |-> policy,
                     ret |-> similarityNgrams(seq1, seq2, policy, pad)]
    /\ UNCHANGED <<vocabulary, input_weights, output_weights,
                   output_weights_hs, sent_weights, normalized, before>>
    /\ UNCHANGED <<huffVars, sigVars, chunkVars>>

----------------------------------------------------------------------------
(* The Huffman tree (HuffmanNode, createBinaryTree, assignCodes). *)

\* A reference to a node: a leaf (a position of leaves) or an internal node
\* (a position of parent_nodes)
LeafRef(p) == [leaf |-> TRUE, pos |-> p]
NodeRef(p) == [leaf |-> FALSE, pos |-> p]

\* node->count
CountOf(ref) ==
    IF ref.leaf THEN leaves[ref.pos].count ELSE parent_nodes[ref.pos].count

\* HuffmanNode(int index, const string& word): a leaf; its count is then
\* raised once per further occurrence of the word
HuffmanLeaf(index, count) ==
    [index |-> index, count |-> count, code |-> <<>>, parents |-> <<>>]

\* A plausible slip: only the left child is counted.
HuffmanInternalLeftOnly(index, left, right) ==
    [index |-> index, left |-> left, right |-> right, count |-> CountOf(left)]

\* HuffmanNode(int index, HuffmanNode* left, HuffmanNode* right)
HuffmanInternal(index, left, right) ==
    [index |-> index, left |-> left, right |-> right,
     count |-> CountOf(left) + CountOf(right)]

\* HuffmanNode::comp
comp(v1, v2) == v1.count > v2.count

\* The orders std::sort with comp can leave the nodes in: no node stands
\* before one that comp puts first
SortedByComp(seq) ==
    \A i, j \in 1..Len(seq) : i < j => ~comp(seq[j], seq[i])

Perms(n) == {f \in [1..n -> 1..n] : \A i, j \in 1..n : i # j => f[i] # f[j]}

\* The current minima: the front of either queue; on a tie, either one
PickMin(lc, nc) ==
    LET hasLeaf == lc >= 1
        hasNode == nc <= Len(parent_nodes)
    IN  (IF hasLeaf /\ (~hasNode \/ leaves[lc].count <= parent_nodes[nc].count)
         THEN {[ref |-> LeafRef(lc), lc |-> lc - 1, nc |-> nc]} ELSE {})
        \cup
        (IF hasNode /\ (~hasLeaf \/ parent_nodes[nc].count <= leaves[lc].count)
         THEN {[ref |-> NodeRef(nc), lc |-> lc, nc |-> nc + 1]} ELSE {})

\* the nodes that are not merged yet
Remaining == leaf_cur + (Len(parent_nodes) + 1 - node_cur)

\* One step of createBinaryTree: the two minima are merged into a new
\* internal node.
HuffMerge ==
    /\ build = "merge"
    /\ Remaining >= 2
    /\ \E first \in PickMin(leaf_cur, node_cur) :
        \E second \in PickMin(first.lc, first.nc) :
            /\ parent_nodes' = Append(parent_nodes,
                    HuffmanInternal(Len(parent_nodes), first.ref, second.ref))
            /\ leaf_cur' = second.lc
            /\ node_cur' = second.nc
    /\ UNCHANGED <<leaves, build>>
    /\ UNCHANGED <<simVars, sigVars, chunkVars>>

\* createBinaryTree has one node left: the root
HuffRoot ==
    /\ build = "merge"
    /\ Remaining = 1
    /\ build' = "assign"
    /\ UNCHANGED <<leaves, parent_nodes, leaf_cur, node_cur>>
    /\ UNCHANGED <<simVars, sigVars, chunkVars>>

\* assignCodes(node, code, parents): the code and the parents of every leaf
\* below node
RECURSIVE assignCodes(_, _, _)
assignCodes(node, code, parents) ==
    IF node.leaf
    THEN {[pos |-> node.pos, code |-> code, parents |-> parents]}
    ELSE LET n == parent_nodes[node.pos]
             up == Append(parents, n.index)
         IN  assignCodes(n.left, Append(code, 0), up)
             \cup assignCodes(n.right, Append(code, 1), up)

\* the node that is left
Root == IF leaf_cur >= 1 THEN LeafRef(leaf_cur) ELSE NodeRef(node_cur)

HuffAssign ==
    /\ build = "assign"
    /\ LET assigned == assignCodes(Root, <<>>, <<>>)
       IN  leaves' = [p \in DOMAIN leaves |->
                IF \E a \in assigned : a.pos = p
                THEN LET a == CHOOSE a \in assigned : a.pos = p
                     IN  [leaves[p] EXCEPT !.code = a.code, !.parents = a.parents]
                ELSE leaves[p]]
    /\ build' = "done"
    /\ UNCHANGED <<parent_nodes, leaf_cur, node_cur>>
    /\ UNCHANGED <<simVars, sigVars, chunkVars>>

----------------------------------------------------------------------------
(* sigmoid and the output-layer routines.  The weights and the hidden      *)
(* vector are integers here, so the dot product z is an integer.           *)

\* the assertion of sigmoid(x)
SigmoidAssert(x) == x > -MAX_EXP /\ x < MAX_EXP

Workers == {1, 2}

\* the weights of the shared row
RowVals == {0 - 1, 0, 1}

\* the hidden vectors: with RowVals they give dot products inside, on and
\* beyond the bounds -MAX_EXP and MAX_EXP
Hiddens == {[j \in 1..Dim |-> 3], [j \in 1..Dim |-> IF j = 1 THEN 4 ELSE 3]}

Idle == [pc |-> "idle", h |-> <<>>, z |-> 0, j |-> 1, update |-> FALSE]

\* A plausible slip: the bounds themselves are let through.
HsSkipStrict(z) == z < -MAX_EXP \/ z > MAX_EXP

\* hierarchicalUpdate: the step is skipped when |z| >= MAX_EXP
HsSkip(z) == z <= -MAX_EXP \/ z >= MAX_EXP

\* negSamplingUpdate: the value is clamped, and sigmoid not called, when
\* z <= -MAX_EXP or z >= MAX_EXP
NsClamped(z) == z <= -MAX_EXP \/ z >= MAX_EXP

\* the worker's next place once it has its value of sigma
AfterSigma(w) ==
    IF worker[w].update
    THEN [worker EXCEPT ![w].pc = "update", ![w].j = 1]
    ELSE [worker EXCEPT ![w] = Idle]

\* A worker enters the routine with a hidden vector.
SigStart(w) ==
    /\ worker[w].pc = "idle"
    /\ \E h \in Hiddens, update \in BOOLEAN :
        worker' = [worker EXCEPT ![w] =
            [pc |-> "dot", h |-> h, z |-> 0, j |-> 1, update |-> update]]
    /\ UNCHANGED <<layer, row, assert_ok>>
    /\ UNCHANGED <<simVars, huffVars, chunkVars>>

\* z = hidden.dot(row), one element of the shared row at a time
SigDot(w) ==
    /\ worker[w].pc = "dot"
    /\ LET r == worker[w]
           z == r.z + r.h[r.j] * row[r.j]
       IN  worker' = [worker EXCEPT ![w].z = z, ![w].j = r.j + 1,
                                    ![w].pc = IF r.j = Dim THEN "guard" ELSE "dot"]
    /\ UNCHANGED <<layer, row, assert_ok>>
    /\ UNCHANGED <<simVars, huffVars, chunkVars>>

\* hierarchicalUpdate's test of z
HsGuard(w) ==
    /\ layer = "hs"
    /\ worker[w].pc = "guard"
    /\ worker' = [worker EXCEPT ![w] =
            IF HsSkip(worker[w].z) THEN Idle ELSE [@ EXCEPT !.pc = "sigmoid"]]
    /\ UNCHANGED <<layer, row, assert_ok>>
    /\ UNCHANGED <<simVars, huffVars, chunkVars>>

\* negSamplingUpdate's test of z
NsGuard(w) ==
    /\ layer = "ns"
    /\ worker[w].pc = "guard"
    /\ worker' = IF NsClamped(worker[w].z) THEN AfterSigma(w)
                 ELSE [worker EXCEPT ![w].pc = "sigmoid"]
    /\ UNCHANGED <<layer, row, assert_ok>>
    /\ UNCHANGED <<simVars, huffVars, chunkVars>>

\* sigmoid(z): a failed assertion ends the program
SigCall(w) ==
    /\ worker[w].pc = "sigmoid"
    /\ assert_ok
    /\ IF SigmoidAssert(worker[w].z)
       THEN worker' = AfterSigma(w) /\ UNCHANGED assert_ok
       ELSE assert_ok' = FALSE /\ UNCHANGED worker
    /\ UNCHANGED <<layer, row>>
    /\ UNCHANGED <<simVars, huffVars, chunkVars>>

\* row += e * hidden, one element at a time; e is a float, and the element's
\* new value is any weight of the model
SigUpdate(w) ==
    /\ worker[w].pc = "update"
    /\ \E v \in RowVals : row' = [row EXCEPT ![worker[w].j] = v]
    /\ worker' = [worker EXCEPT ![w] =
            IF worker[w].j = Dim THEN Idle ELSE [@ EXCEPT !.j = @ + 1]]
    /\ UNCHANGED <<layer, assert_ok>>
    /\ UNCHANGED <<simVars, huffVars, chunkVars>>

NoSigmoid ==
    /\ layer = "hs"
    /\ row = <<>>
    /\ worker = [w \in Workers |-> Idle]
    /\ assert_ok = TRUE

----------------------------------------------------------------------------
(* chunkify and trainChunk. *)

RECURSIVE SumTo(_, _)
\* the bytes of the first i lines
SumTo(f, i) == IF i = 0 THEN 0 ELSE f[i] + SumTo(f, i - 1)

FileSize(f) == SumTo(f, Len(f))

\* the offset of line i's first byte
LineStart(f, i) == SumTo(f, i - 1)

\* the line that holds the byte at offset pos < FileSize(f)
LineAt(f, pos) ==
    CHOOSE i \in 1..Len(f) : LineStart(f, i) <= pos /\ pos < LineStart(f, i + 1)

\* getline at pos: the position after the line's break (no change at the end of file)
AfterLine(f, pos) ==
    IF pos >= FileSize(f) THEN pos ELSE LineStart(f, LineAt(f, pos) + 1)

\* The divisions of size bytes into n byte ranges: the n + 1 offsets
Divisions(size, n) ==
    {c \in [1..(n + 1) -> 0..size] :
        /\ c[1] = 0
        /\ c[n + 1] = size
        /\ \A k \in 1..n : c[k] <= c[k + 1]}

\* the leading line is discarded unless the worker starts at offset 0
DiscardsLeadingLine(start) == start # 0

\* A plausible slip: the worker stops when it reaches its end offset.
ReachedEnd(pos, end) == pos >= end

\* the worker has crossed its end offset
CrossedEnd(pos, end) == pos > end

NThreads == Len(chunks) - 1
Readers == 0..(NThreads - 1)
StartOf(k) == chunks[k + 1]
EndOf(k) == chunks[k + 2]

\* infile.seekg(start)
ChunkSeek(k) ==
    /\ k \in Readers
    /\ reader[k].pc = "seek"
    /\ reader' = [reader EXCEPT ![k].pos = StartOf(k),
            ![k].pc = IF DiscardsLeadingLine(StartOf(k)) THEN "discard" ELSE "read"]
    /\ UNCHANGED <<file, chunks, trained>>
    /\ UNCHANGED <<simVars, huffVars, sigVars>>

\* the leading line is read and dropped
ChunkDiscard(k) ==
    /\ k \in Readers
    /\ reader[k].pc = "discard"
    /\ reader' = [reader EXCEPT ![k].pos = AfterLine(file, reader[k].pos),
                                ![k].pc = "read"]
    /\ UNCHANGED <<file, chunks, trained>>
    /\ UNCHANGED <<simVars, huffVars, sigVars>>

\* the pass is over: the end offset is crossed, or the file has ended
PassOver(k) ==
    CrossedEnd(reader[k].pos, EndOf(k)) \/ reader[k].pos >= FileSize(file)

\* getline and trainSentence of the line at the worker's position
ChunkRead(k) ==
    /\ k \in Readers
    /\ reader[k].pc = "read"
    /\ ~PassOver(k)
    /\ LET line == LineAt(file, reader[k].pos)
           it == reader[k].iter
       IN  /\ trained' = [trained EXCEPT ![it][line] = @ + 1]
           /\ reader' = [reader EXCEPT ![k].pos = LineStart(file, line + 1)]
    /\ UNCHANGED <<file, chunks>>
    /\ UNCHANGED <<simVars, huffVars, sigVars>>

\* the worker's next iteration, or its end
ChunkEndPass(k) ==
    /\ k \in Readers
    /\ reader[k].pc = "read"
    /\ PassOver(k)
    /\ reader' = [reader EXCEPT ![k].iter = @ + 1,
            ![k].pc = IF reader[k].iter = MaxIter THEN "done" ELSE "seek"]
    /\ UNCHANGED <<file, chunks, trained>>
    /\ UNCHANGED <<simVars, huffVars, sigVars>>

NoChunks ==
    /\ file = <<>>
    /\ chunks = <<0, 0>>
    /\ reader = [k \in {0} |-> [pc |-> "done", pos |-> 0, iter |-> 1]]
    /\ trained = [it \in 1..MaxIter |-> <<>>]

----------------------------------------------------------------------------
(* The specifications. *)

NoHuffman ==
    /\ leaves = <<>>
    /\ parent_nodes = <<>>
    /\ leaf_cur = 0
    /\ node_cur = 1
    /\ build = "done"

NoModel ==
    /\ vocabulary = Vocab(0)
    /\ input_weights = <<>>
    /\ output_weights = <<>>
    /\ output_weights_hs = <<>>
    /\ sent_weights = <<>>
    /\ normalized = FALSE
    /\ before = NoBefore
    /\ call = NoCall

(* similarity on a trained model of V words: the input matrix holds any    *)
(* weights, the negative-sampling matrix is as initNet leaves it (zero) or *)
(* holds ones, the hierarchical-softmax matrix is as initNet leaves it and *)
(* there are no sentence vectors.                                          *)
InitSim ==
    /\ \E V \in 1..Len(VocabWords) :
        /\ vocabulary = Vocab(V)
        /\ input_weights \in Mats(V)
        /\ output_weights \in {ConstMat(V, 0), ConstMat(V, 1)}
        /\ output_weights_hs = ConstMat(V - 1, 0)
    /\ sent_weights = <<>>
    /\ normalized = FALSE
    /\ before = NoBefore
    /\ call = NoCall
    /\ NoHuffman /\ NoSigmoid /\ NoChunks

(* similarityNgrams on a model of V words whose input matrix is StepMat    *)
(* and whose negative-sampling matrix is as initNet leaves it.             *)
InitNgrams ==
    /\ \E V \in 1..Len(VocabWords) :
        /\ vocabulary = Vocab(V)
        /\ input_weights = StepMat(V)
        /\ output_weights = ConstMat(V, 0)
        /\ output_weights_hs = ConstMat(V - 1, 0)
    /\ sent_weights = <<>>
    /\ normalized = FALSE
    /\ before = NoBefore
    /\ call = NoCall
    /\ NoHuffman /\ NoSigmoid /\ NoChunks

(* normalizeWeights on a model one of whose four matrices holds any        *)
(* weights (an empty matrix included); the other three are the empty       *)
(* matrix, a matrix of one row and StepMat(2).                             *)
NormFamily == <<ConstMat(0, 0), ConstMat(1, 1), StepMat(2)>>

AnyMat == UNION {Mats(r) : r \in 0..MaxRows}

Slot(m, k, n) == IF n = k THEN m ELSE NormFamily[((n + 4 - k) % 4)]

InitNorm ==
    /\ vocabulary = Vocab(0)
    /\ \E m \in AnyMat, k \in 0..3 :
        /\ input_weights = Slot(m, k, 0)
        /\ output_weights = Slot(m, k, 1)
        /\ output_weights_hs = Slot(m, k, 2)
        /\ sent_weights = Slot(m, k, 3)
    /\ normalized = FALSE
    /\ before = NoBefore
    /\ call = NoCall
    /\ NoHuffman /\ NoSigmoid /\ NoChunks

(* The build for a vocabulary of V words with any counts, sorted by comp.  *)
InitHuffman ==
    /\ NoModel /\ NoSigmoid /\ NoChunks
    /\ \E V \in 1..MaxV :
        \E count \in [1..V -> 1..MaxCount], order \in Perms(V) :
            /\ leaves = [p \in 1..V |-> HuffmanLeaf(order[p] - 1, count[order[p]])]
            /\ SortedByComp(leaves)
            /\ leaf_cur = V
    /\ parent_nodes = <<>>
    /\ node_cur = 1
    /\ build = "merge"

(* Two workers run the routine of one output layer on one shared row. *)
InitSigmoid ==
    /\ layer \in {"hs", "ns"}
    /\ row \in [1..Dim -> RowVals]
    /\ worker = [w \in Workers |-> Idle]
    /\ assert_ok = TRUE
    /\ NoModel /\ NoHuffman /\ NoChunks

Files == UNION {[1..n -> 1..MaxLineLen] : n \in 0..MaxLines}

(* Any file, any number of workers and any division of the file's bytes    *)
(* into that many ranges.                                                  *)
InitChunks ==
    /\ file \in Files
    /\ \E n \in 1..MaxThreads :
        /\ chunks \in Divisions(FileSize(file), n)
        /\ reader = [k \in 0..(n - 1) |-> [pc |-> "seek", pos |-> 0, iter |-> 1]]
    /\ trained = [it \in 1..MaxIter |-> [l \in 1..Len(file) |-> 0]]
    /\ NoModel /\ NoHuffman /\ NoSigmoid

NextSim == Similarity \/ NormalizeWeights \/ Return

Spec == InitSim /\ [][NextSim]_vars

NextNgrams == SimilarityNgrams \/ Return

SpecNgrams == InitNgrams /\ [][NextNgrams]_vars

NextNorm == NormalizeWeights

SpecNorm == InitNorm /\ [][NextNorm]_vars

NextHuffman == HuffMerge \/ HuffRoot \/ HuffAssign

SpecHuffman == InitHuffman /\ [][NextHuffman]_vars

NextSigmoid ==
    \E w \in Workers :
        SigStart(w) \/ SigDot(w) \/ HsGuard(w) \/ NsGuard(w) \/ SigCall(w) \/ SigUpdate(w)

SpecSigmoid == InitSigmoid /\ [][NextSigmoid]_vars

NextChunks ==
    \E k \in 0..(MaxThreads - 1) :
        ChunkSeek(k) \/ ChunkDiscard(k) \/ ChunkRead(k) \/ ChunkEndPass(k)

SpecChunks == InitChunks /\ [][NextChunks]_vars

----------------------------------------------------------------------------
(* Properties of similarity, similarityNgrams and normalizeWeights. *)

InVocab(word) == word \in DOMAIN vocabulary

IsSim == call.op = "similarity"
IsNgrams == call.op = "similarityNgrams"

words1 == split(call.seq1)
words2 == split(call.seq2)

\* C1: similarityNgrams fails with LengthMismatch, before any similarity is
\* computed, whenever the two sequences differ in their number of tokens.
C1_LengthMismatch ==
    (IsNgrams /\ Len(words1) # Len(words2))
        => /\ call.ret.kind = "throw"
           /\ call.ret.what = "LengthMismatch"
           /\ call.ret.nsim = 0

OovAt(i) == ~InVocab(words1[i]) \/ ~InVocab(words2[i])

PairValue(w1, w2, policy) ==
    IF w1 = w2 THEN FOne
    ELSE Cosine(wordVecIndex(vocabulary[w1], policy),
                wordVecIndex(vocabulary[w2], policy))

\* The values of the positions i.. that are in the set scored, in order
RECURSIVE ValuesFrom(_, _)
ValuesFrom(i, scored) ==
    IF i > Len(words1) THEN <<>>
    ELSE (IF i \in scored
          THEN <<PairValue(words1[i], words2[i], call.policy)>>
          ELSE <<>>) \o ValuesFrom(i + 1, scored)

\* the returned value is the mean over the positions of the set scored
MeanOver(scored) ==
    /\ call.ret.terms = ValuesFrom(1, scored)
    /\ call.ret.n = Cardinality(scored)

BothKnownAt(i) == InVocab(words1[i]) /\ InVocab(words2[i])
KnownOrSameAt(i) == words1[i] = words2[i] \/ BothKnownAt(i)

ConstantCol(m, j) == \A i \in 1..Len(m) : m[i][j] = m[1][j]

\* what normalizeWeights is to make of the matrix old
NormalizedFrom(old, new) ==
    /\ Len(new) = Len(old)
    /\ old # <<>> =>
        \A j \in 1..Len(old[1]) :
            IF ConstantCol(old, j)
            THEN \A i \in 1..Len(old) : new[i][j] = old[i][j]
            ELSE /\ \A i \in 1..Len(new) : RLe(Zero, new[i][j]) /\ RLe(new[i][j], One)
                 /\ \E i \in 1..Len(new) : new[i][j] = Zero
                 /\ \E i \in 1..Len(new) : new[i][j] = One

\* C6: after normalizeWeights, in each of the four matrices, a column that
\* was not constant has minimum 0 and maximum 1, a constant column holds its
\* previous values, and an empty matrix is empty.
C6_ColumnsNormalized ==
    normalized =>
        /\ NormalizedFrom(before.input, input_weights)
        /\ NormalizedFrom(before.output, output_weights)
        /\ NormalizedFrom(before.output_hs, output_weights_hs)
        /\ NormalizedFrom(before.sent, sent_weights)

C6_Witness ==
    /\ normalized
    /\ \E m \in {before.input, before.output, before.output_hs, before.sent} :
        /\ Len(m) = 2
        /\ ~ConstantCol(m, 1)
        /\ ConstantCol(m, 2)
        /\ m[1][1] = RInt(0 - 1)
        /\ m[1][2] # Zero
    /\ \E m \in {before.input, before.output, before.output_hs, before.sent} : Len(m) = 1
    /\ \E m \in {before.input, before.output, before.output_hs, before.sent} : m = <<>>

\* the value is a number of [lo, 1]: lo is 0 or -1
InRange(v, lo) == v.kind = "num" /\ RLe(v.sq, One) /\ v.sgn >= lo

\* C7: once normalizeWeights has normalized the weights, similarity of two
\* words of the vocabulary is a number of [0, 1], for every policy.
C7_NormalizedSimilarityRange ==
    (IsSim /\ normalized /\ InVocab(call.word1) /\ InVocab(call.word2))
        => InRange(call.ret, 0)

\* C7's other half: without normalization the value is a number of [-1, 1].
C7_SimilarityRange ==
    (IsSim /\ InVocab(call.word1) /\ InVocab(call.word2))
        => InRange(call.ret, 0 - 1)

\* What does hold of similarity: a value that is a number is in [-1, 1], and
\* in [0, 1] once the weights are normalized.
SimilarityNumberRange ==
    (IsSim /\ call.ret.kind = "num")
        => InRange(call.ret, IF normalized THEN 0 ELSE 0 - 1)

----------------------------------------------------------------------------
(* Properties of the Huffman build. *)

V == Len(leaves)

\* C8: the build of a vocabulary of V >= 1 leaves creates exactly V - 1
\* internal nodes, indexed 0..V-2; the count of every internal node is the
\* sum of its two children's counts; every leaf ends with a code and a path
\* of the same length, and every entry of the path is in [0, V-2].
C8_HuffmanTree ==
    /\ \A k \in 1..Len(parent_nodes) :
        /\ parent_nodes[k].index = k - 1
        /\ parent_nodes[k].count =
                CountOf(parent_nodes[k].left) + CountOf(parent_nodes[k].right)
    /\ build = "done" =>
        /\ Len(parent_nodes) = V - 1
        /\ \A p \in 1..V :
            /\ Len(leaves[p].code) = Len(leaves[p].parents)
            /\ \A e \in 1..Len(leaves[p].parents) :
                leaves[p].parents[e] \in 0..(V - 2)

C8_Witness ==
    /\ build = "done"
    /\ V >= 3
    /\ \E p, q \in 1..V :
        /\ Len(leaves[p].code) = 1
        /\ Len(leaves[q].code) >= 2
        /\ leaves[q].count < leaves[p].count

\* the build of a vocabulary of one word: no internal node, an empty code
C8_OneWord ==
    (build = "done" /\ V = 1) =>
        (parent_nodes = <<>> /\ leaves[1].code = <<>> /\ leaves[1].parents = <<>>)

----------------------------------------------------------------------------
(* Properties of the output-layer routines. *)

\* C9: the assertion of sigmoid holds at every call the output-layer
\* routines make, whatever the dot product and however the workers' writes
\* to the shared row interleave.
C9_SigmoidAssertHolds ==
    /\ assert_ok
    /\ \A w \in Workers : worker[w].pc = "sigmoid" => SigmoidAssert(worker[w].z)

\* the dot product of the hidden vector and the row as it is now
RECURSIVE DotNow(_, _)
DotNow(h, j) == IF j = 0 THEN 0 ELSE h[j] * row[j] + DotNow(h, j - 1)

\* a worker is about to call sigmoid with the z it tested, while the row has
\* been written since and now gives a dot product beyond the bound
C9_Witness ==
    \E w \in Workers :
        /\ worker[w].pc = "sigmoid"
        /\ worker[w].z = MAX_EXP - 2
        /\ DotNow(worker[w].h, Dim) >= MAX_EXP

----------------------------------------------------------------------------
(* Properties of the chunks. *)

AllDone == \A k \in Readers : reader[k].pc = "done"

EachLineOnce ==
    \A it \in 1..MaxIter : \A l \in 1..Len(file) : trained[it][l] = 1

OnlyFirstAtZero == \A k \in Readers : k # 0 => StartOf(k) # 0

====
